---- MODULE Spec2Model ----
(***************************************************************************)
(* Model of the calendar-event HTTP service of src/main.rs: one shared     *)
(* Vec<Event> behind a std::sync::Mutex, six axum handlers running on      *)
(* tokio's multi-threaded runtime.  Every lock region of the source is an   *)
(* acquire step followed by a body step that ends with the guard's drop.   *)
(*                                                                         *)
(* A DateTime<Utc> is the number of whole hours since 1970-01-01T00:00Z;   *)
(* a NaiveDate is the number of days since 1970-01-01.  Positions in the   *)
(* store are 1-based here (Rust's index i is position i + 1) and position  *)
(* 0 stands for Option::None.                                              *)
(***************************************************************************)
EXTENDS Integers, Sequences, FiniteSets, TLC

VARIABLES dates, poisoned, lock, pc, req, idx, resp

vars == <<dates, poisoned, lock, pc, req, idx, resp>>

\* ------------------------------------------------------------------ bounds
\* Creates are admitted while the store and the creates in flight stay below
\* MaxStore events.
MaxStore == 2
\* The number of concurrent creates of SpecCreate.
NumCreators == 3
\* The longest store SpecQuery starts from.
MaxQueryStore == 3

\* Connections; each carries one request at a time.  Spec runs handlers on
\* connections 1 and 2 concurrently.
Procs == {1, 2}
Creators == 1..NumCreators
Conns == Procs \cup Creators

\* ------------------------------------------------------- calendar (chrono)
\* Days since 1970-01-01 of the proleptic Gregorian date y-m-d.
days_from_civil(y, m, d) ==
    LET yy  == IF m <= 2 THEN y - 1 ELSE y
        era == yy \div 400
        yoe == yy - era * 400
        mp  == IF m > 2 THEN m - 3 ELSE m + 9
        doy == (153 * mp + 2) \div 5 + d - 1
        doe == yoe * 365 + yoe \div 4 - yoe \div 100 + doy
    IN  era * 146097 + doe - 719468

\* The date [y, m, d] of day number z.
civil_from_days(z) ==
    LET zz  == z + 719468
        era == zz \div 146097
        doe == zz - era * 146097
        yoe == (doe - doe \div 1460 + doe \div 36524 - doe \div 146096) \div 365
        doy == doe - (365 * yoe + yoe \div 4 - yoe \div 100)
        mp  == (5 * doy + 2) \div 153
        d   == doy - (153 * mp + 2) \div 5 + 1
        m   == IF mp < 10 THEN mp + 3 ELSE mp - 9
        y   == yoe + era * 400
    IN  [y |-> IF m <= 2 THEN y + 1 ELSE y, m |-> m, d |-> d]

IsLeap(y) == (y % 4 = 0 /\ y % 100 # 0) \/ y % 400 = 0

DaysInMonth(y, m) ==
    IF m = 2 THEN (IF IsLeap(y) THEN 29 ELSE 28)
    ELSE IF m \in {4, 6, 9, 11} THEN 30 ELSE 31

ValidYmd(y, m, d) == m \in 1..12 /\ d >= 1 /\ d <= DaysInMonth(y, m)

\* DateTime<Utc>::date_naive(): the UTC calendar day of an instant.
date_naive(t) == t \div 24

\* Datelike::year(), month(), day() of a NaiveDate.
year(n)  == civil_from_days(n).y
month(n) == civil_from_days(n).m
day(n)   == civil_from_days(n).d

\* weekday().num_days_from_monday(): 1970-01-01 was a Thursday.
num_days_from_monday(n) == (n + 3) % 7

\* Faulty variant of start_of_week: weeks that start on Sunday.  C8 rejects it.
start_of_week_sunday(n) == n - ((n + 4) % 7)

start_of_week(n) == n - num_days_from_monday(n)

\* ------------------------------------------------------------------ inputs
\* An RFC 3339 string is modelled by the fields it spells: local date, local
\* hour and UTC offset in hours.  A string whose fields are out of range does
\* not parse.
DT(y, m, d, h, off) == [y |-> y, m |-> m, d |-> d, h |-> h, off |-> off]

DateTimeInputs ==
    { DT(2024, 3, 4, 10, 0),      \* a Monday
      DT(2024, 3, 4, 12, 2),      \* the same instant, written at +02:00
      DT(2024, 3, 11, 1, 2),      \* 2024-03-10T23:00Z: a Sunday in UTC
      DT(2024, 13, 4, 10, 0) }    \* does not parse

Names == {"a", "b"}

\* JSON bodies of /create_event and /delete_event; shape = FALSE is a body
\* serde cannot deserialize (a missing field).
EventBodies ==
    [shape : {TRUE}, date_time : DateTimeInputs, event_name : Names]
      \cup [shape : {FALSE}, date_time : {DT(2024, 3, 4, 10, 0)}, event_name : {"a"}]

\* The new_date_time strings of /update_event bodies; the last does not parse.
NewDateTimes ==
    { DT(2024, 3, 4, 10, 0), DT(2024, 3, 11, 1, 2), DT(2024, 13, 4, 10, 0) }

\* A string that is not a date, for requests without a new_date_time.
NoDateTime == DT(0, 0, 0, 0, 0)

\* JSON bodies of /update_event: EventUpdateReq has four fields.
UpdateBodies ==
    [shape : {TRUE}, date_time : DateTimeInputs, event_name : Names,
     new_date_time : NewDateTimes, new_event_name : Names]
      \cup [shape : {FALSE}, date_time : {DT(2024, 3, 4, 10, 0)},
            event_name : {"a"}, new_date_time : {DT(2024, 3, 4, 10, 0)},
            new_event_name : {"a"}]

\* Query parameter ?date=YYYY-MM-DD; shape = FALSE is a missing parameter.
YMD(y, m, d) == [y |-> y, m |-> m, d |-> d]

DateParams ==
    [shape : {TRUE}, date : { YMD(2024, 3, 4), YMD(2024, 2, 30) }]
      \cup [shape : {FALSE}, date : {YMD(2024, 3, 4)}]

\* ----------------------------------------------------------------- parsing
\* DateTime::parse_from_rfc3339: a DateTime<FixedOffset>, kept as its local
\* hour count and its offset.
parse_from_rfc3339(s) ==
    IF ValidYmd(s.y, s.m, s.d) /\ s.h \in 0..23 /\ s.off \in -23..23
    THEN [ok |-> TRUE, local |-> days_from_civil(s.y, s.m, s.d) * 24 + s.h,
          off |-> s.off]
    ELSE [ok |-> FALSE, local |-> 0, off |-> 0]

\* DateTime::with_timezone(&Utc): the instant, in hours since the epoch.
with_timezone_utc(v) == v.local - v.off

Event(date, name) == [date |-> date, name |-> name]

NoEvent == Event(0, "")

json_body_parse(body) ==
    LET v == parse_from_rfc3339(body.date_time)
    IN  IF body.shape /\ v.ok
        THEN [ok |-> TRUE, event |-> Event(with_timezone_utc(v), body.event_name)]
        ELSE [ok |-> FALSE, event |-> NoEvent]

\* NaiveDate::from_str on the query parameter.
query_parse(param) ==
    IF param.shape /\ ValidYmd(param.date.y, param.date.m, param.date.d)
    THEN [ok |-> TRUE,
          date |-> days_from_civil(param.date.y, param.date.m, param.date.d)]
    ELSE [ok |-> FALSE, date |-> 0]

\* ------------------------------------------------------------ store scans
\* Faulty variant of FirstMatch: the names alone are compared.  C3 rejects it.
FirstMatchByName(events, desired_event) ==
    LET hits == { i \in 1..Len(events) : events[i].name = desired_event.name }
    IN  IF hits = {} THEN 0
        ELSE CHOOSE i \in hits : \A j \in hits : i <= j

\* check_event's loop: the first position holding desired_event, 0 for None.
FirstMatch(events, desired_event) ==
    LET hits == { i \in 1..Len(events) :
                    /\ events[i].date = desired_event.date
                    /\ events[i].name = desired_event.name }
    IN  IF hits = {} THEN 0
        ELSE CHOOSE i \in hits : \A j \in hits : i <= j

\* Vec::remove(i): drops one position, the rest keep their order.
RemoveAt(events, i) ==
    [k \in 1..(Len(events) - 1) |-> IF k < i THEN events[k] ELSE events[k + 1]]

\* Faulty variant of DayFilter: the year is not compared.  C9 rejects it.
DayFilterNoYear(events, desired_date) ==
    LET Keep(event) ==
            /\ month(date_naive(event.date)) = month(desired_date)
            /\ day(date_naive(event.date)) = day(desired_date)
    IN  SelectSeq(events, Keep)

\* Faulty variant of MonthFilter: the day is compared too.  C10 rejects it.
MonthFilterWithDay(events, desired_date) ==
    LET Keep(event) ==
            /\ year(date_naive(event.date)) = year(desired_date)
            /\ month(date_naive(event.date)) = month(desired_date)
            /\ day(date_naive(event.date)) = day(desired_date)
    IN  SelectSeq(events, Keep)

\* The filters of the three query handlers.
DayFilter(events, desired_date) ==
    LET Keep(event) ==
            /\ year(date_naive(event.date)) = year(desired_date)
            /\ month(date_naive(event.date)) = month(desired_date)
            /\ day(date_naive(event.date)) = day(desired_date)
    IN  SelectSeq(events, Keep)

WeekFilter(events, desired_date) ==
    LET Keep(event) ==
            start_of_week(date_naive(event.date)) = start_of_week(desired_date)
    IN  SelectSeq(events, Keep)

MonthFilter(events, desired_date) ==
    LET Keep(event) ==
            /\ year(date_naive(event.date)) = year(desired_date)
            /\ month(date_naive(event.date)) = month(desired_date)
    IN  SelectSeq(events, Keep)

\* ---------------------------------------------------------------- requests
\* The locals of a handler invocation: the parsed event (the lookup key), the
\* new_* fields of an update's body, the date of a query.
Request(op, event, qdate) ==
    [op |-> op, event |-> event, new_date_time |-> NoDateTime,
     new_event_name |-> "", qdate |-> qdate]

\* An update with the new_* fields of its body.
UpdateRequest(event, body) ==
    [Request("update", event, 0) EXCEPT !.new_date_time = body.new_date_time,
                                        !.new_event_name = body.new_event_name]

\* The request once the handler has returned and dropped the body.
Dropped(r) == Request(r.op, r.event, r.qdate)

\* The values an update writes: new_date_time in UTC and new_event_name.
new_event(r) ==
    Event(with_timezone_utc(parse_from_rfc3339(r.new_date_time)), r.new_event_name)

NoRequest == Request("none", NoEvent, 0)

\* A response: the HTTP status, the events its message spells (the event
\* added or removed; the old and the new event of an update) and the
\* "result" array of a query.
Response(status, event, new, result) ==
    [status |-> status, event |-> event, new |-> new, result |-> result]

Error(status) == Response(status, NoEvent, NoEvent, <<>>)

\* A handler that panicked: the connection closes without a response.
NoResponse == Error(0)

\* No request in flight, the mutex free and sound.
Quiet ==
    /\ poisoned = FALSE
    /\ lock = 0
    /\ pc = [p \in Conns |-> "idle"]
    /\ req = [p \in Conns |-> NoRequest]
    /\ idx = [p \in Conns |-> 0]
    /\ resp = [p \in Conns |-> NoResponse]

Init == dates = <<>> /\ Quiet

\* A connection is free to carry its next request.
Free(p) == pc[p] = "idle"

\* The handler returns r; its locals are dropped.
Return(p, r) ==
    /\ pc' = [pc EXCEPT ![p] = "done"]
    /\ resp' = [resp EXCEPT ![p] = r]
    /\ idx' = [idx EXCEPT ![p] = 0]

\* Creates still on their way to push.
PendingCreates == { q \in Conns : req[q].op = "create" /\ pc[q] # "done" }

\* The response passes the logging middleware and is sent; the connection
\* is free again.
log_request(p) ==
    /\ pc[p] = "done"
    /\ pc' = [pc EXCEPT ![p] = "idle"]
    /\ req' = [req EXCEPT ![p] = NoRequest]
    /\ resp' = [resp EXCEPT ![p] = NoResponse]
    /\ UNCHANGED <<dates, poisoned, lock, idx>>

\* A request enters create, update or delete; ok tells whether its body
\* parsed.
Enter(p, request, ok) ==
    /\ Free(p)
    /\ req' = [req EXCEPT ![p] = request]
    /\ IF ok
       THEN /\ pc' = [pc EXCEPT ![p] = "check"]
            /\ resp' = [resp EXCEPT ![p] = NoResponse]
            /\ UNCHANGED idx
       ELSE Return(p, Error(400))
    /\ UNCHANGED <<dates, poisoned, lock>>

\* dates.lock() and the match on its result: Err on a poisoned mutex.
LockOr500(p) ==
    /\ lock = 0
    /\ IF poisoned
       THEN Return(p, Error(500)) /\ UNCHANGED lock
       ELSE /\ lock' = p
            /\ pc' = [pc EXCEPT ![p] = "body"]
            /\ UNCHANGED <<resp, idx>>

\* A panic while the guard is held: unwinding drops the guard, which poisons
\* the mutex and unlocks it; the request gets no response.
PanicHoldingLock(p) ==
    /\ poisoned' = TRUE
    /\ lock' = 0
    /\ Return(p, NoResponse)
    /\ UNCHANGED dates

\* ------------------------------------------------------------ check_event
\* events.lock().unwrap(): panics on a poisoned mutex.
CheckLock(p) ==
    /\ pc[p] = "check"
    /\ lock = 0
    /\ IF poisoned
       THEN Return(p, NoResponse) /\ UNCHANGED lock
       ELSE /\ lock' = p
            /\ pc' = [pc EXCEPT ![p] = "scan"]
            /\ UNCHANGED <<resp, idx>>
    /\ UNCHANGED <<dates, poisoned, req>>

\* The scan; the guard is dropped when check_event returns.
CheckScan(p) ==
    /\ pc[p] = "scan"
    /\ lock = p
    /\ idx' = [idx EXCEPT ![p] = FirstMatch(dates, req[p].event)]
    /\ lock' = 0
    /\ pc' = [pc EXCEPT ![p] = "checked"]
    /\ UNCHANGED <<dates, poisoned, req, resp>>

check_event(p) == CheckLock(p) \/ CheckScan(p)

\* --------------------------------------------------- create_event_handler
CreateParse(p, bodies) ==
    \E body \in bodies :
        LET parsed == json_body_parse(body)
        IN  Enter(p, Request("create", parsed.event, 0), parsed.ok)

\* Faulty variant of CreateConflict: the event is pushed before the conflict
\* is answered.  C17 rejects it.
CreateConflictPush(p) ==
    /\ pc[p] = "checked" /\ req[p].op = "create"
    /\ idx[p] # 0
    /\ dates' = Append(dates, req[p].event)
    /\ Return(p, Error(503))
    /\ UNCHANGED <<poisoned, lock, req>>

CreateConflict(p) ==
    /\ pc[p] = "checked" /\ req[p].op = "create"
    /\ idx[p] # 0
    /\ Return(p, Error(503))
    /\ UNCHANGED <<dates, poisoned, lock, req>>

CreateLock(p) ==
    /\ pc[p] = "checked" /\ req[p].op = "create"
    /\ idx[p] = 0
    /\ LockOr500(p)
    /\ UNCHANGED <<dates, poisoned, req>>

\* Faulty variant of CreatePush: the event is put first.  C4 rejects it.
CreatePushFront(p) ==
    /\ pc[p] = "body" /\ req[p].op = "create"
    /\ lock = p
    /\ dates' = <<req[p].event>> \o dates
    /\ lock' = 0
    /\ Return(p, Response(201, req[p].event, NoEvent, <<>>))
    /\ UNCHANGED <<poisoned, req>>

CreatePush(p) ==
    /\ pc[p] = "body" /\ req[p].op = "create"
    /\ lock = p
    /\ dates' = Append(dates, req[p].event)
    /\ lock' = 0
    /\ Return(p, Response(201, req[p].event, NoEvent, <<>>))
    /\ UNCHANGED <<poisoned, req>>

create_event_handler(p, bodies) ==
    \/ CreateParse(p, bodies)
    \/ CreateConflict(p)
    \/ CreateLock(p)
    \/ CreatePush(p)

\* --------------------------------------------------- update_event_handler
\* serde_json::from_value::<EventUpdateReq> and the parse of date_time: the
\* same two checks, in the same order, as json_body_parse.
UpdateParse(p, bodies) ==
    \E body \in bodies :
        LET parsed == json_body_parse(body)
        IN  Enter(p, IF parsed.ok THEN UpdateRequest(parsed.event, body)
                     ELSE Request("update", NoEvent, 0), parsed.ok)

\* Faulty variant of UpdateNotFound: the missing event is added.  C6 rejects
\* it.
UpdateUpsert(p) ==
    /\ pc[p] = "checked" /\ req[p].op = "update"
    /\ idx[p] = 0
    /\ dates' = Append(dates, req[p].event)
    /\ Return(p, Response(200, req[p].event, NoEvent, <<>>))
    /\ req' = [req EXCEPT ![p] = Dropped(req[p])]
    /\ UNCHANGED <<poisoned, lock>>

UpdateNotFound(p) ==
    /\ pc[p] = "checked" /\ req[p].op = "update"
    /\ idx[p] = 0
    /\ Return(p, Error(503))
    /\ req' = [req EXCEPT ![p] = Dropped(req[p])]
    /\ UNCHANGED <<dates, poisoned, lock>>

\* new_date_time is parsed after the lookup and before dates.lock().
UpdateLock(p) ==
    /\ pc[p] = "checked" /\ req[p].op = "update"
    /\ idx[p] # 0
    /\ IF parse_from_rfc3339(req[p].new_date_time).ok
       THEN /\ LockOr500(p)
            /\ req' = [req EXCEPT ![p] = IF poisoned THEN Dropped(req[p])
                                         ELSE req[p]]
       ELSE /\ Return(p, Error(400))
            /\ req' = [req EXCEPT ![p] = Dropped(req[p])]
            /\ UNCHANGED lock
    /\ UNCHANGED <<dates, poisoned>>

\* Faulty variant of UpdateWrite: the name alone is overwritten.  C7 rejects
\* it.
UpdateWriteNameOnly(p) ==
    /\ pc[p] = "body" /\ req[p].op = "update"
    /\ lock = p
    /\ IF idx[p] <= Len(dates)
       THEN /\ dates' = [dates EXCEPT ![idx[p]].name = req[p].new_event_name]
            /\ lock' = 0
            /\ Return(p, Response(200, req[p].event, new_event(req[p]), <<>>))
            /\ UNCHANGED poisoned
       ELSE PanicHoldingLock(p)
    /\ req' = [req EXCEPT ![p] = Dropped(req[p])]

\* dates[i] panics when i is out of bounds.
UpdateWrite(p) ==
    /\ pc[p] = "body" /\ req[p].op = "update"
    /\ lock = p
    /\ IF idx[p] <= Len(dates)
       THEN /\ dates' = [dates EXCEPT ![idx[p]] = new_event(req[p])]
            /\ lock' = 0
            /\ Return(p, Response(200, req[p].event, new_event(req[p]), <<>>))
            /\ UNCHANGED poisoned
       ELSE PanicHoldingLock(p)
    /\ req' = [req EXCEPT ![p] = Dropped(req[p])]

update_event_handler(p, bodies) ==
    \/ UpdateParse(p, bodies)
    \/ UpdateNotFound(p)
    \/ UpdateLock(p)
    \/ UpdateWrite(p)

\* --------------------------------------------------- delete_event_handler
DeleteParse(p, bodies) ==
    \E body \in bodies :
        LET parsed == json_body_parse(body)
        IN  Enter(p, Request("delete", parsed.event, 0), parsed.ok)

DeleteNotFound(p) ==
    /\ pc[p] = "checked" /\ req[p].op = "delete"
    /\ idx[p] = 0
    /\ Return(p, Error(503))
    /\ UNCHANGED <<dates, poisoned, lock, req>>

DeleteLock(p) ==
    /\ pc[p] = "checked" /\ req[p].op = "delete"
    /\ idx[p] # 0
    /\ LockOr500(p)
    /\ UNCHANGED <<dates, poisoned, req>>

\* Vec::remove panics when the index is out of bounds.
DeleteRemove(p) ==
    /\ pc[p] = "body" /\ req[p].op = "delete"
    /\ lock = p
    /\ IF idx[p] <= Len(dates)
       THEN /\ dates' = RemoveAt(dates, idx[p])
            /\ lock' = 0
            /\ Return(p, Response(200, req[p].event, NoEvent, <<>>))
            /\ UNCHANGED poisoned
       ELSE PanicHoldingLock(p)
    /\ UNCHANGED req

delete_event_handler(p, bodies) ==
    \/ DeleteParse(p, bodies)
    \/ DeleteNotFound(p)
    \/ DeleteLock(p)
    \/ DeleteRemove(p)

\* ---------------------------------------------------------- query handlers
QueryOps == {"day", "week", "month"}

\* query_parse at the head of the three query handlers.
QueryParse(p, op, params) ==
    /\ Free(p)
    /\ \E param \in params :
         LET r == query_parse(param)
         IN  /\ req' = [req EXCEPT ![p] = Request(op, NoEvent, r.date)]
             /\ IF r.ok
                THEN /\ pc' = [pc EXCEPT ![p] = "checked"]
                     /\ resp' = [resp EXCEPT ![p] = NoResponse]
                     /\ UNCHANGED idx
                ELSE Return(p, Error(400))
    /\ UNCHANGED <<dates, poisoned, lock>>

QueryLock(p, op) ==
    /\ pc[p] = "checked" /\ req[p].op = op
    /\ LockOr500(p)
    /\ UNCHANGED <<dates, poisoned, req>>

\* 200 with the filtered events; the guard is dropped on return.
QueryResult(p, op, filtered_dates) ==
    /\ pc[p] = "body" /\ req[p].op = op
    /\ lock = p
    /\ lock' = 0
    /\ Return(p, Response(200, NoEvent, NoEvent, filtered_dates))
    /\ UNCHANGED <<dates, poisoned, req>>

events_for_day_handler(p, params) ==
    \/ QueryParse(p, "day", params)
    \/ QueryLock(p, "day")
    \/ QueryResult(p, "day", DayFilter(dates, req[p].qdate))

events_for_week_handler(p, params) ==
    \/ QueryParse(p, "week", params)
    \/ QueryLock(p, "week")
    \/ QueryResult(p, "week", WeekFilter(dates, req[p].qdate))

events_for_month_handler(p, params) ==
    \/ QueryParse(p, "month", params)
    \/ QueryLock(p, "month")
    \/ QueryResult(p, "month", MonthFilter(dates, req[p].qdate))

\* ---------------------------------------------------------- specifications
\* The bodies a create may carry now: none once the store is full.
Admitted(bodies) ==
    IF Len(dates) + Cardinality(PendingCreates) < MaxStore THEN bodies ELSE {}

\* One step of connection p.
Handle(p) ==
    \/ check_event(p)
    \/ create_event_handler(p, Admitted(EventBodies))
    \/ update_event_handler(p, UpdateBodies)
    \/ delete_event_handler(p, EventBodies)
    \/ events_for_day_handler(p, DateParams)
    \/ events_for_week_handler(p, DateParams)
    \/ events_for_month_handler(p, DateParams)
    \/ log_request(p)

\* Handlers run concurrently on the runtime's worker threads.
Next == \E p \in Procs : Handle(p)

Spec == Init /\ [][Next]_vars

\* A step of a request in progress on connection p: every step of Handle(p)
\* but the arrival of a request.
Progress(p) == ~Free(p) /\ Handle(p)

\* Fair scheduling: the runtime keeps polling every handler, and a handler
\* that comes to the lock again and again while it is free gets it.
SpecFair == Spec /\ \A p \in Procs : SF_vars(Progress(p))

\* Requests served one at a time.
NextSeq == Handle(1)

SpecSeq == Init /\ [][NextSeq]_vars

\* NumCreators connections, each carrying one create, against a store that
\* holds none of the events they may name.
OldEvent == Event(days_from_civil(2024, 2, 29) * 24 + 10, "z")

InitCreate == dates \in {<<>>, <<OldEvent>>} /\ Quiet

NextCreate ==
    \E p \in Creators : check_event(p) \/ create_event_handler(p, EventBodies)

SpecCreate == InitCreate /\ [][NextCreate]_vars

\* The query handlers over stores a sequence of creates leaves behind.
QueryInstants ==
    { DT(2024, 3, 4, 10, 0),      \* Monday
      DT(2024, 3, 5, 1, 2),       \* 2024-03-04T23:00Z: the same Monday in UTC
      DT(2024, 3, 10, 10, 0),     \* Sunday of that week
      DT(2024, 3, 11, 0, 0),      \* the following Monday, 00:00Z
      DT(2024, 3, 3, 23, 0),      \* the Sunday before
      DT(2024, 2, 29, 10, 0),     \* the week of 2024-03-03, another month
      DT(2023, 3, 4, 10, 0),      \* another year
      DT(2024, 4, 4, 10, 0) }     \* another month, the same day of month

QueryEvents ==
    { json_body_parse([shape |-> TRUE, date_time |-> s, event_name |-> "a"]).event :
        s \in QueryInstants }

QueryStores ==
    UNION { [1..n -> QueryEvents] : n \in 0..MaxQueryStore }

QueryParams ==
    [shape : {TRUE},
     date : { YMD(2024, 3, 4), YMD(2024, 3, 10), YMD(2024, 3, 1),
              YMD(2024, 2, 30) }]
      \cup [shape : {FALSE}, date : {YMD(2024, 3, 4)}]

InitQuery == dates \in QueryStores /\ Quiet

NextQuery ==
    \/ events_for_day_handler(1, QueryParams)
    \/ events_for_week_handler(1, QueryParams)
    \/ events_for_month_handler(1, QueryParams)
    \/ log_request(1)

SpecQuery == InitQuery /\ [][NextQuery]_vars

\* ------------------------------------------------------------------ claims
\* The events of a sequence, and how often one occurs in it.
Elems(events) == { events[i] : i \in 1..Len(events) }

Count(events, e) == Cardinality({ i \in 1..Len(events) : events[i] = e })

InStore(e) == e \in Elems(dates)

\* C1: in every reachable state no two stored events have the same
\* (date, name) pair.
C1_NoDuplicateEvents ==
    \A i, j \in 1..Len(dates) :
        (dates[i].date = dates[j].date /\ dates[i].name = dates[j].name) => i = j

\* A create, update or delete that has done its lookup and is on its way to
\* append, overwrite or remove.
BetweenLookupAndWrite(p) ==
    /\ pc[p] = "checked"
    /\ \/ req[p].op = "create" /\ idx[p] = 0
       \/ req[p].op \in {"update", "delete"} /\ idx[p] # 0

\* C2: between an operation's lookup and its append, overwrite or removal no
\* other request gets at the collection: no step changes the store and no
\* other request takes the lock.
C2_ExclusiveForFullDuration ==
    [][\A p \in Conns :
         BetweenLookupAndWrite(p) => (dates' = dates /\ lock' \in {0, p})]_vars

\* C3: when the NumCreators concurrent creates name pairwise distinct events,
\* none of them in the store, all are answered 201 and the final store is its
\* previous content followed by exactly those events, each once; the store
\* only ever grows at its end.
AllCreated ==
    /\ \A p \in Creators : pc[p] = "done" /\ resp[p].status # 400
    /\ \A p, q \in Creators : req[p].event = req[q].event => p = q

C3_FinalStore ==
    AllCreated =>
        /\ \A p \in Creators : resp[p].status = 201
        /\ \A p \in Creators : Count(dates, req[p].event) = 1
        /\ Len(dates) = Count(dates, OldEvent) + NumCreators

C3_ConcurrentDistinctCreates ==
    /\ []C3_FinalStore
    /\ [][/\ Len(dates') >= Len(dates)
          /\ SubSeq(dates', 1, Len(dates)) = dates]_vars

C3_Witness ==
    /\ AllCreated
    /\ \A p \in Creators : resp[p].status = 201
    /\ Len(dates) = NumCreators + 1
    /\ dates[1] = OldEvent

\* A request of kind op is in its handler.
InFlight(p, op) == req[p].op = op /\ pc[p] \notin {"idle", "done"}

\* C4: a create of an event not in the store appends it at the end (one more
\* event) and answers 201; a create of an event in the store answers 503 and
\* leaves the store as it was.
C4_CreateContract ==
    [][\A p \in Conns :
         InFlight(p, "create") =>
           IF pc'[p] = "done"
           THEN IF InStore(req[p].event)
                THEN dates' = dates /\ resp'[p].status = 503
                ELSE /\ dates' = dates \o <<req[p].event>>
                     /\ Len(dates') = Len(dates) + 1
                     /\ resp'[p].status = 201
           ELSE dates' = dates]_vars

\* The second create of an event: 503, the store still holding it once.
C4_Witness ==
    /\ pc[1] = "done" /\ req[1].op = "create"
    /\ resp[1].status = 503
    /\ dates = <<req[1].event>>

\* The store with one occurrence of e taken out, the rest in their order.
IsRemovalOf(before, after, e) ==
    \E i \in 1..Len(before) :
        /\ before[i] = e
        /\ Len(after) = Len(before) - 1
        /\ \A k \in 1..Len(after) :
               after[k] = IF k < i THEN before[k] ELSE before[k + 1]

\* C5: a delete of an event in the store removes that one event, keeps the
\* order of the others and answers 200, and the event is then absent, so the
\* next delete of it answers 503; a delete of an absent event answers 503 and
\* leaves the store as it was.
C5_DeleteContract ==
    [][\A p \in Conns :
         InFlight(p, "delete") =>
           IF pc'[p] = "done"
           THEN IF InStore(req[p].event)
                THEN /\ IsRemovalOf(dates, dates', req[p].event)
                     /\ resp'[p].status = 200
                     /\ req[p].event \notin Elems(dates')
                ELSE dates' = dates /\ resp'[p].status = 503
           ELSE dates' = dates]_vars

\* C6: an update whose lookup key matches no stored event answers 503 and
\* leaves the store as it was.
C6_UpdateUnknownTarget ==
    [][\A p \in Conns :
         (InFlight(p, "update") /\ ~InStore(req[p].event)) =>
           /\ dates' = dates
           /\ pc'[p] = "done" => resp'[p].status = 503]_vars

C6_Witness ==
    /\ pc[1] = "done" /\ req[1].op = "update"
    /\ resp[1].status = 503
    /\ dates # <<>>
    /\ ~InStore(req[1].event)

\* C7: a create answered 201 leaves its event A in the store exactly once;
\* and when an event A stored exactly once is updated to a different event B,
\* then right after the update the day, week and month filters for B's UTC
\* date hold B and those for A's UTC date hold no event equal to A.
C7_RoundTripUpdate ==
    [][\A p \in Conns :
         LET A == req[p].event
             B == new_event(req[p])
         IN  /\ (InFlight(p, "create") /\ resp'[p].status = 201) =>
                  Count(dates', A) = 1
             /\ (/\ InFlight(p, "update") /\ pc[p] = "body"
                 /\ Count(dates, A) = 1 /\ B # A
                 /\ resp'[p].status = 200) =>
                  /\ B \in Elems(DayFilter(dates', date_naive(B.date)))
                  /\ B \in Elems(WeekFilter(dates', date_naive(B.date)))
                  /\ B \in Elems(MonthFilter(dates', date_naive(B.date)))
                  /\ A \notin Elems(DayFilter(dates', date_naive(A.date)))
                  /\ A \notin Elems(WeekFilter(dates', date_naive(A.date)))
                  /\ A \notin Elems(MonthFilter(dates', date_naive(A.date)))]_vars

\* The store after create(A) and update(A to B): B alone.
C7_Witness ==
    /\ pc[1] = "done" /\ req[1].op = "update"
    /\ resp[1].status = 200
    /\ resp[1].event # resp[1].new
    /\ dates = <<resp[1].new>>

\* 2024-03-04 is a Monday.
IsMonday(n) == (n - days_from_civil(2024, 3, 4)) % 7 = 0

\* Days a and b lie in the same Monday-to-Sunday week.
SameWeek(a, b) ==
    \E monday \in (b - 6)..b : IsMonday(monday) /\ a \in monday..(monday + 6)

\* The hours of the UTC day n.
HoursOfDay(n) == (n * 24)..(n * 24 + 23)

\* A query of kind op has been answered 200.
Answered(p, op) == pc[p] = "done" /\ req[p].op = op /\ resp[p].status = 200

\* C8: the week query for d returns exactly the stored events whose UTC day
\* lies in the Monday-to-Sunday week of d, in stored order.
C8_WeekQuery ==
    \A p \in Conns :
        Answered(p, "week") =>
            LET InWeek(e) == SameWeek(e.date \div 24, req[p].qdate)
            IN  resp[p].result = SelectSeq(dates, InWeek)

\* The week query for Monday 2024-03-04 over a store with an event on Sunday
\* 2024-03-10 and one at 00:00 on Monday 2024-03-11 returns the first alone.
C8_Witness ==
    /\ Answered(1, "week")
    /\ req[1].qdate = days_from_civil(2024, 3, 4)
    /\ Len(dates) = 2
    /\ dates[1].date = days_from_civil(2024, 3, 11) * 24
    /\ dates[2].date = days_from_civil(2024, 3, 10) * 24 + 10
    /\ resp[1].result = <<dates[2]>>

\* C9: the day query for d returns exactly the stored events whose instant
\* falls on the UTC day d, in stored order.
C9_DayQuery ==
    \A p \in Conns :
        Answered(p, "day") =>
            LET OnDay(e) == e.date \in HoursOfDay(req[p].qdate)
            IN  resp[p].result = SelectSeq(dates, OnDay)

\* Two events of 2024-03-04 stored later-first around one of 2023-03-04: the
\* day query returns the two in that order.
C9_Witness ==
    /\ Answered(1, "day")
    /\ req[1].qdate = days_from_civil(2024, 3, 4)
    /\ Len(dates) = 3
    /\ dates[2].date = days_from_civil(2023, 3, 4) * 24 + 10
    /\ resp[1].result = <<dates[1], dates[3]>>
    /\ dates[1].date > dates[3].date

\* The first day of the month of day n, and of the month after it.
MonthStart(n) ==
    days_from_civil(civil_from_days(n).y, civil_from_days(n).m, 1)

NextMonthStart(n) ==
    LET c == civil_from_days(n)
    IN  IF c.m = 12 THEN days_from_civil(c.y + 1, 1, 1)
        ELSE days_from_civil(c.y, c.m + 1, 1)

\* C10: the month query for d returns exactly the stored events whose instant
\* falls in the UTC month of d, in stored order, and with them every event
\* the day filter for d holds.
C10_MonthQuery ==
    \A p \in Conns :
        Answered(p, "month") =>
            LET d == req[p].qdate
                InMonth(e) ==
                    e.date \in (MonthStart(d) * 24)..(NextMonthStart(d) * 24 - 1)
            IN  /\ resp[p].result = SelectSeq(dates, InMonth)
                /\ Elems(DayFilter(dates, d)) \subseteq Elems(resp[p].result)

\* The month query for 2024-03-01 returns the events of 2024-03-04 and
\* 2024-03-10 and leaves out the one of 2024-04-04.
C10_Witness ==
    /\ Answered(1, "month")
    /\ req[1].qdate = days_from_civil(2024, 3, 1)
    /\ Len(dates) = 3
    /\ dates[1].date = days_from_civil(2024, 3, 4) * 24 + 10
    /\ dates[2].date = days_from_civil(2024, 4, 4) * 24 + 10
    /\ dates[3].date = days_from_civil(2024, 3, 10) * 24 + 10
    /\ resp[1].result = <<dates[1], dates[3]>>

\* Connection p takes the step.
Step(p) == pc'[p] # pc[p]

\* The next step of p is a lock acquisition: check_event's, or the handler's
\* own dates.lock().
AtLock(p) ==
    \/ pc[p] = "check"
    \/ /\ pc[p] = "checked"
       /\ \/ req[p].op = "create" /\ idx[p] = 0
          \/ req[p].op = "delete" /\ idx[p] # 0
          \/ /\ req[p].op = "update" /\ idx[p] # 0
             /\ parse_from_rfc3339(req[p].new_date_time).ok
          \/ req[p].op \in QueryOps

\* C11: whenever a create, update, delete or query comes to acquire the lock
\* while the mutex is poisoned, that step ends the request with status 500 and
\* an empty body; the store and the lock are left alone.
C11_PoisonedLockAnswers500 ==
    [][\A p \in Conns :
         (poisoned /\ AtLock(p) /\ Step(p)) =>
           /\ pc'[p] = "done"
           /\ resp'[p] = Error(500)
           /\ dates' = dates /\ lock' = lock]_vars

\* The request a step of p belongs to: the one arriving, or the one in flight.
StepRequest(p) == IF Free(p) THEN req'[p] ELSE req[p]

\* The request's input did not parse: the body of a create, update or delete,
\* the new_date_time of an update, or the date of a query.
Malformed(r) ==
    \/ r.op \in {"create", "update", "delete"} /\ r.event = NoEvent
    \/ r.op = "update" /\ ~parse_from_rfc3339(r.new_date_time).ok
    \/ r.op \in QueryOps /\ r.qdate = 0

\* C12: no step of a request with malformed input takes the lock or changes
\* the store, and the request is answered 400.
C12_MalformedRejectedBeforeStore ==
    [][\A p \in Conns :
         (Step(p) /\ pc[p] # "done" /\ Malformed(StepRequest(p))) =>
           /\ lock' # p
           /\ dates' = dates
           /\ pc'[p] = "done" => resp'[p].status = 400]_vars

\* The statuses the handlers answer with.
Statuses == {200, 201, 400, 500, 503}

\* The handler of p is running.
InHandler(p) == pc[p] \notin {"idle", "done"}

\* C13: under fair scheduling every request that starts finishes, and it
\* finishes with a response whose status is one of 200, 201, 400, 500, 503;
\* whenever no handler is running the lock is free.
C13_EveryRequestAnswered ==
    /\ [][\A p \in Conns :
            (Step(p) /\ pc'[p] = "done") => resp'[p].status \in Statuses]_vars
    /\ []((\A p \in Conns : ~InHandler(p)) => lock = 0)
    /\ \A p \in Procs : InHandler(p) ~> (pc[p] = "done")

\* C14: under any interleaving, a delete that answers 200 has taken out of
\* the store one event equal to its lookup key and nothing else; the other
\* events keep their order.
C14_DeleteRemovesOwnKey ==
    [][\A p \in Conns :
         (InFlight(p, "delete") /\ Step(p) /\ resp'[p].status = 200) =>
           IsRemovalOf(dates, dates', req[p].event)]_vars

\* C15: under any interleaving, an update that answers 200 has overwritten a
\* position that held its lookup key with (new date, new name); the length
\* and every other position are unchanged.
C15_UpdateInPlace ==
    [][\A p \in Conns :
         (InFlight(p, "update") /\ Step(p) /\ resp'[p].status = 200) =>
           \E i \in 1..Len(dates) :
               /\ dates[i] = req[p].event
               /\ dates' = [dates EXCEPT ![i] = new_event(req[p])]]_vars

\* C16: the mutex is never poisoned, and an update or delete that holds the
\* lock to overwrite or remove holds an index inside the store.
C16_IndexValidNeverPoisoned ==
    /\ ~poisoned
    /\ \A p \in Conns :
           (pc[p] = "body" /\ req[p].op \in {"update", "delete"}) =>
               idx[p] \in 1..Len(dates)

\* C17: every step of a query, and every step of a create, update or delete
\* other than the one that answers 200 or 201, leaves the store as it was;
\* so a request answered 400, 500 or 503 has changed nothing.
C17_OnlySuccessChangesStore ==
    [][\A p \in Conns :
         (/\ Step(p)
          /\ ~(/\ StepRequest(p).op \in {"create", "update", "delete"}
               /\ pc'[p] = "done" /\ resp'[p].status \in {200, 201})) =>
           dates' = dates]_vars

\* A delete of a stored event answered 500: the mutex was poisoned after its
\* lookup, and the event is still in the store.
C17_Witness ==
    /\ pc[1] = "done" /\ req[1].op = "delete"
    /\ resp[1].status = 500
    /\ InStore(req[1].event)

====
